---- MODULE Spec2Model ----
(***************************************************************************)
(* Model of the Dataloader class (batching, same-batch deduplication and   *)
(* batch isolation) together with the part of the JavaScript event loop    *)
(* it relies on: one thread, synchronous segments of user code, and a FIFO *)
(* microtask queue that is drained before the next task starts.            *)
(***************************************************************************)
EXTENDS Integers, Sequences, FiniteSets, TLC

\* ------------------------------------------------------------------ bounds
NumKeys == 2        \* keys are 1..NumKeys
MaxLoads == 3       \* load() calls made in one behaviour
MaxSegs == 2        \* segments of user code (tasks and user microtasks)

Keys == 1..NumKeys
Errors == {"LoaderError"}
NoErr == ""
TypeError == "TypeError"

VARIABLES
    isFlushPending,     \* Dataloader.isFlushPending
    resolveArr,         \* Dataloader.resolveArr : the promise each resolve belongs to
    rejectArr,          \* Dataloader.rejectArr  : the promise each reject belongs to
    data,               \* Dataloader.data
    cachePromises,      \* Dataloader.cachePromises : key -> promise
    promises,           \* every Promise<R> made by load(): [st, val, err, by, ord]
    mq,                 \* the microtask queue, head first
    batches,            \* one record per loaderFn call: the locals of that flushJobs
    running,            \* a segment of user code is executing
    seg,                \* the number of load() calls made before the running
                        \* segment of user code began (0 when none runs)
    spawned,            \* pieces of user code started or queued so far
    loadLog,            \* one record per load() call: the segment it was made in,
                        \* its key, the promise returned, whether the cache
                        \* answered, the number of loaderFn calls made before it
    uncaught,           \* errors that escaped flushJobs
    other               \* a second Dataloader instance: its five fields, its
                        \* load() calls (log) and its loaderFn calls (calls, as
                        \* indices of batches)

vars == <<isFlushPending, resolveArr, rejectArr, data, cachePromises, promises,
          mq, batches, running, seg, spawned, loadLog, uncaught, other>>

loaderVars == <<isFlushPending, resolveArr, rejectArr, data, cachePromises>>

\* ------------------------------------------------------------- helpers
Job(type, b, res, err) == [type |-> type, b |-> b, res |-> res, err |-> err]

\* the value a loader function returns for a key (keys.map((key) => key * 10))
ValueOf(key) == key * 10

\* the results a loader function may produce for a key list: one value per key in
\* the order of the keys, or, breaking its contract, one value short or one long
LoaderResults(keys) ==
    LET full == [i \in 1..Len(keys) |-> ValueOf(keys[i])]
    IN {full, SubSeq(full, 1, Len(full) - 1), Append(full, ValueOf(NumKeys + 1))}

\* -------------------------------------------------- promise (built-in)
\* the place of a settlement among the settlements made by the callbacks of batch
\* b: one more than the number of promises those callbacks settled before it
NextOrd(ps, b) == Cardinality({q \in DOMAIN ps : ps[q].by = b}) + 1

NewPromise == [st |-> "pending", val |-> 0, err |-> NoErr, by |-> 0, ord |-> 0]

\* resolve(value) of promise p, called by batch b: only a pending promise changes
Resolve(ps, p, value, b) ==
    IF ps[p].st = "pending"
    THEN [ps EXCEPT ![p] = [st |-> "fulfilled", val |-> value, err |-> NoErr, by |-> b,
                          ord |-> NextOrd(ps, b)]]
    ELSE ps

Reject_Overwrites(ps, p, reason, b) ==
    [ps EXCEPT ![p] = [st |-> "rejected", val |-> 0, err |-> reason, by |-> b,
                          ord |-> NextOrd(ps, b)]]

\* reject(reason) of promise p, called by batch b
Reject(ps, p, reason, b) ==
    IF ps[p].st = "pending"
    THEN [ps EXCEPT ![p] = [st |-> "rejected", val |-> 0, err |-> reason, by |-> b,
                          ord |-> NextOrd(ps, b)]]
    ELSE ps

\* --------------------------------------------------------- Dataloader.load
CacheHas_Never(cache, arg) == FALSE

\* this.cachePromises.has(arg)
CacheHas(cache, arg) == arg \in DOMAIN cache

CacheSet_Forgotten(cache, arg, p) == cache

\* this.cachePromises.set(arg, promise)
CacheSet(cache, arg, p) ==
    [x \in DOMAIN cache \cup {arg} |-> IF x = arg THEN p ELSE cache[x]]

MustSchedule_Always(pending) == TRUE

\* if (!this.isFlushPending)
MustSchedule(pending) == ~pending

FlushJob_NoFallback(hasQueueMicrotask) ==
    Job(IF hasQueueMicrotask THEN "flush" ELSE "user", 0, <<>>,
        IF hasQueueMicrotask THEN "queueMicrotask" ELSE "then")

\* queueMicrotask(this.flushJobs) when 'queueMicrotask' in globalThis, otherwise
\* Promise.resolve().then(this.flushJobs): either way one job is appended to the
\* microtask queue (err names the primitive that queued it)
FlushJob(hasQueueMicrotask) ==
    Job("flush", 0, <<>>, IF hasQueueMicrotask THEN "queueMicrotask" ELSE "then")

CacheGet_Registers(st, arg) ==
    [st EXCEPT !.ret = st.cachePromises[arg], !.hit = TRUE,
               !.resolveArr = Append(st.resolveArr, st.cachePromises[arg]),
               !.rejectArr = Append(st.rejectArr, st.cachePromises[arg])]

\* return this.cachePromises.get(arg)!  (the promise executor does not run)
CacheGet(st, arg) == [st EXCEPT !.ret = st.cachePromises[arg], !.hit = TRUE]

\* The state of the loader after load(arg), as a record of the five fields,
\* the queue and the promise table; hasQM: 'queueMicrotask' in globalThis.
LoadStep(st, arg, hasQM) ==
    IF CacheHas(st.cachePromises, arg)
    THEN CacheGet(st, arg)
    ELSE LET p == Len(st.promises) + 1
             sched == MustSchedule(st.isFlushPending)
         IN [isFlushPending |-> IF sched THEN TRUE ELSE st.isFlushPending,
             resolveArr |-> Append(st.resolveArr, p),
             rejectArr |-> Append(st.rejectArr, p),
             data |-> Append(st.data, arg),
             cachePromises |-> CacheSet(st.cachePromises, arg, p),
             promises |-> Append(st.promises, NewPromise),
             mq |-> IF sched THEN Append(st.mq, FlushJob(hasQM)) ELSE st.mq,
             ret |-> p,
             hit |-> FALSE]

Here == [isFlushPending |-> isFlushPending, resolveArr |-> resolveArr,
         rejectArr |-> rejectArr, data |-> data, cachePromises |-> cachePromises,
         promises |-> promises, mq |-> mq, ret |-> 0, hit |-> FALSE]

LogEntry(st, arg, s) ==
    [seg |-> s, key |-> arg, p |-> st.ret, hit |-> st.hit, nb |-> Len(batches)]

\* the fields of a Dataloader after its constructor (lines 29-33)
NewDataloader ==
    [isFlushPending |-> FALSE, resolveArr |-> <<>>, rejectArr |-> <<>>,
     data |-> <<>>, cachePromises |-> <<>>, log |-> <<>>, calls |-> <<>>]

Init ==
    /\ isFlushPending = FALSE
    /\ resolveArr = <<>>
    /\ rejectArr = <<>>
    /\ data = <<>>
    /\ cachePromises = <<>>
    /\ promises = <<>>
    /\ mq = <<>>
    /\ batches = <<>>
    /\ running = FALSE
    /\ seg = 0
    /\ spawned = 0
    /\ loadLog = <<>>
    /\ uncaught = 0
    /\ other = NewDataloader

\* ------------------------------------------------------------ environment
CallStackEmpty_Ignored == TRUE

\* a microtask (queueMicrotask callback, promise reaction) is run only when the
\* code that queued it has returned: no segment of user code is executing
CallStackEmpty == ~running

QueueDrained_Ignored == TRUE

\* a task (a timer, an I/O callback) starts only once the microtask queue is empty
QueueDrained == mq = <<>>

\* the event loop starts a task (the main script, a timer or an I/O callback):
\* only when no code runs and the microtask queue is drained
StartTask ==
    /\ ~running
    /\ QueueDrained
    /\ spawned < MaxSegs
    /\ running' = TRUE
    /\ seg' = Len(loadLog)
    /\ spawned' = spawned + 1
    /\ UNCHANGED <<other, loaderVars, promises, mq, batches, loadLog, uncaught>>

\* Keys are only compared for identity (Map.has), so they are named in the order
\* of their first use: key k is asked once 1..k-1 have been.
Nameable(arg) == \A k \in 1..(arg - 1) : \E i \in DOMAIN loadLog : loadLog[i].key = k

\* user code calls loader.load(arg)
Load(arg, hasQM) ==
    /\ running
    /\ Len(loadLog) + Len(other.log) < MaxLoads
    /\ Nameable(arg)
    /\ LET st == LoadStep(Here, arg, hasQM)
       IN /\ isFlushPending' = st.isFlushPending
          /\ resolveArr' = st.resolveArr
          /\ rejectArr' = st.rejectArr
          /\ data' = st.data
          /\ cachePromises' = st.cachePromises
          /\ promises' = st.promises
          /\ mq' = st.mq
          /\ loadLog' = Append(loadLog, LogEntry(st, arg, seg))
    /\ UNCHANGED <<other, batches, running, seg, spawned, uncaught>>

\* user code queues a callback of its own on the microtask queue
UserQueueMicrotask ==
    /\ running
    /\ spawned < MaxSegs
    /\ mq' = Append(mq, Job("user", 0, <<>>, NoErr))
    /\ spawned' = spawned + 1
    /\ UNCHANGED <<other, loaderVars, promises, batches, running, seg, loadLog,
                   uncaught>>

\* the running segment of user code returns to the event loop
EndSegment ==
    /\ running
    /\ running' = FALSE
    /\ seg' = 0
    /\ UNCHANGED <<other, loaderVars, promises, mq, batches, spawned, loadLog,
                   uncaught>>

\* the event loop runs a user callback from the head of the microtask queue
RunUserJob ==
    /\ CallStackEmpty
    /\ mq # <<>>
    /\ Head(mq).type = "user"
    /\ mq' = Tail(mq)
    /\ running' = TRUE
    /\ seg' = Len(loadLog)
    /\ UNCHANGED <<other, loaderVars, promises, batches, spawned, loadLog, uncaught>>

\* ---------------------------------------------------- Dataloader.flushJobs
Slice_AfterClear(arr) == <<>>

\* const currentData = this.data.slice() (and the two callback arrays)
Slice(arr) == arr

CacheClear_Kept(cache) == cache

\* this.cachePromises.clear()
CacheClear(cache) == <<>>

Truncate_Kept(arr) == arr

\* this.rejectArr.length = this.resolveArr.length = this.data.length = 0
Truncate(arr) == <<>>

\* the five fields after lines 73-75 of flushJobs
Cleared(st) ==
    [st EXCEPT !.cachePromises = CacheClear(st.cachePromises),
               !.rejectArr = Truncate(st.rejectArr),
               !.resolveArr = Truncate(st.resolveArr),
               !.data = Truncate(st.data),
               !.isFlushPending = FALSE]

Fields(st) ==
    [isFlushPending |-> st.isFlushPending, resolveArr |-> st.resolveArr,
     rejectArr |-> st.rejectArr, data |-> st.data, cachePromises |-> st.cachePromises]

\* what the loader function does when it is called: it may call load(re) itself
\* (re = 0: it does not), and it returns an array, throws, or returns a promise
\* that is settled later
LoaderBehaviours(keys) ==
    {[re |-> re, how |-> "return", res |-> r, err |-> NoErr] :
        re \in {0} \cup Keys, r \in LoaderResults(keys)}
    \cup {[re |-> re, how |-> "throw", res |-> <<>>, err |-> e] :
        re \in {0} \cup Keys, e \in Errors}
    \cup {[re |-> re, how |-> "promise", res |-> <<>>, err |-> NoErr] :
        re \in {0} \cup Keys}

\* the primitives a load() made by the loader function may find
ReentrantPrimitives(beh) == IF beh.re = 0 THEN {TRUE} ELSE BOOLEAN

\* the event loop runs flushJobs from the head of the microtask queue
RunFlush ==
    /\ CallStackEmpty
    /\ mq # <<>>
    /\ Head(mq).type = "flush"
    /\ IF Len(data) = 0
       THEN /\ isFlushPending' = FALSE
            /\ mq' = Tail(mq)
            /\ UNCHANGED <<resolveArr, rejectArr, data, cachePromises, promises,
                           batches, loadLog, uncaught, spawned>>
       ELSE \E beh \in LoaderBehaviours(data) : \E hasQM \in ReentrantPrimitives(beh) :
            /\ beh.re # 0 =>
                  /\ Len(loadLog) + Len(other.log) < MaxLoads
                  /\ spawned < MaxSegs
                  /\ Nameable(beh.re)
            /\ spawned' = IF beh.re # 0 THEN spawned + 1 ELSE spawned
            /\ LET currentData == Slice(data)
                   currentResolvers == Slice(resolveArr)
                   currentRejectors == Slice(rejectArr)
                   atCall == Cleared([Here EXCEPT !.mq = Tail(mq)])
                   st == IF beh.re = 0 THEN atCall ELSE LoadStep(atCall, beh.re, hasQM)
                   b == Len(batches) + 1
                   batch == [keys |-> currentData,
                             resolvers |-> currentResolvers,
                             rejectors |-> currentRejectors,
                             atCall |-> Fields(atCall),
                             p0 |-> CASE beh.how = "return" -> "fulfilled"
                                      [] beh.how = "throw" -> "threw"
                                      [] OTHER -> "pending",
                             sync |-> beh.how # "promise",
                             res |-> beh.res,
                             err |-> beh.err]
               IN /\ isFlushPending' = st.isFlushPending
                  /\ resolveArr' = st.resolveArr
                  /\ rejectArr' = st.rejectArr
                  /\ data' = st.data
                  /\ cachePromises' = st.cachePromises
                  /\ promises' = st.promises
                  /\ batches' = Append(batches, batch)
                  /\ loadLog' = IF beh.re = 0 THEN loadLog
                                ELSE Append(loadLog,
                                            [LogEntry(st, beh.re, Len(loadLog))
                                                EXCEPT !.nb = b])
                  \* Promise.resolve(array).then(f): the reaction is queued at once;
                  \* a throw leaves flushJobs before .then and .catch are reached
                  /\ mq' = IF beh.how = "return"
                           THEN Append(st.mq, Job("then", b, beh.res, NoErr))
                           ELSE st.mq
                  /\ uncaught' = IF beh.how = "throw" THEN uncaught + 1 ELSE uncaught
    /\ UNCHANGED <<other, running, seg>>

\* the promise a loader function returned is settled (by I/O, a timer, user code)
FetchSettle(b) ==
    /\ b \in DOMAIN batches
    /\ batches[b].p0 = "pending"
    /\ \/ \E r \in LoaderResults(batches[b].keys) :
            /\ batches' = [batches EXCEPT ![b].p0 = "fulfilled", ![b].res = r]
            /\ mq' = Append(mq, Job("then", b, r, NoErr))
       \/ \E e \in Errors :
            /\ batches' = [batches EXCEPT ![b].p0 = "rejected", ![b].err = e]
            /\ mq' = Append(mq, Job("pass", b, <<>>, e))
    /\ UNCHANGED <<other, loaderVars, promises, running, seg, spawned, loadLog,
                   uncaught>>

RECURSIVE ForEachResolve_FirstValue(_, _, _, _, _)
ForEachResolve_FirstValue(ps, resolvers, rets, index, b) ==
    IF index > Len(rets) \/ index > Len(resolvers)
    THEN ps
    ELSE ForEachResolve_FirstValue(Resolve(ps, resolvers[index], rets[1], b),
                                   resolvers, rets, index + 1, b)

RECURSIVE ForEachResolve_Backwards(_, _, _, _, _)
ForEachResolve_Backwards(ps, resolvers, rets, index, b) ==
    IF index > Len(rets) \/ index > Len(resolvers)
    THEN ps
    ELSE Resolve(ForEachResolve_Backwards(ps, resolvers, rets, index + 1, b),
                 resolvers[index], rets[index], b)

\* rets.forEach((ret, index) => currentResolvers[index](ret)), from index on
RECURSIVE ForEachResolve(_, _, _, _, _)
ForEachResolve(ps, resolvers, rets, index, b) ==
    IF index > Len(rets) \/ index > Len(resolvers)
    THEN ps
    ELSE ForEachResolve(Resolve(ps, resolvers[index], rets[index], b),
                        resolvers, rets, index + 1, b)

ForEachThrows_OnMismatch(resolvers, rets) == Len(rets) # Len(resolvers)

\* currentResolvers[index] is undefined for an index past the snapshot, and
\* calling it throws inside the .then callback
ForEachThrows(resolvers, rets) == Len(rets) > Len(resolvers)

\* currentRejectors.forEach((rej) => rej(err)), from index on
RECURSIVE ForEachReject(_, _, _, _, _)
ForEachReject(ps, rejectors, err, index, b) ==
    IF index > Len(rejectors)
    THEN ps
    ELSE ForEachReject(Reject(ps, rejectors[index], err, b),
                       rejectors, err, index + 1, b)

\* a user callback waiting on a promise that was just settled is queued
Continuations(ps) ==
    IF ps # promises /\ spawned < MaxSegs
    THEN {<<>>, <<Job("user", 0, <<>>, NoErr)>>}
    ELSE {<<>>}

\* the .then callback of flushJobs runs
RunThen ==
    /\ CallStackEmpty
    /\ mq # <<>>
    /\ Head(mq).type = "then"
    /\ LET j == Head(mq)
           ps == ForEachResolve(promises, batches[j.b].resolvers, j.res, 1, j.b)
       IN /\ promises' = ps
          /\ \E c \in Continuations(ps) :
                /\ spawned' = spawned + Len(c)
                /\ mq' = Tail(mq) \o c \o
                         (IF ForEachThrows(batches[j.b].resolvers, j.res)
                          THEN <<Job("catch", j.b, <<>>, TypeError)>>
                          ELSE <<>>)
    /\ UNCHANGED <<other, loaderVars, batches, running, seg, loadLog, uncaught>>

\* a rejection of the loader's promise passes through .then to .catch
RunPass ==
    /\ CallStackEmpty
    /\ mq # <<>>
    /\ Head(mq).type = "pass"
    /\ mq' = Append(Tail(mq), Job("catch", Head(mq).b, <<>>, Head(mq).err))
    /\ UNCHANGED <<other, loaderVars, promises, batches, running, seg, spawned,
                   loadLog, uncaught>>

\* the .catch callback of flushJobs runs
RunCatch ==
    /\ CallStackEmpty
    /\ mq # <<>>
    /\ Head(mq).type = "catch"
    /\ LET j == Head(mq)
           ps == ForEachReject(promises, batches[j.b].rejectors, j.err, 1, j.b)
       IN /\ promises' = ps
          /\ \E c \in Continuations(ps) :
                /\ spawned' = spawned + Len(c)
                /\ mq' = Tail(mq) \o c
    /\ UNCHANGED <<other, loaderVars, batches, running, seg, loadLog, uncaught>>

\* ------------------------------------------------- a second Dataloader
OwnFields_Shared(own, foreign) == foreign

\* this.isFlushPending, this.resolveArr, ... are fields of the instance the method
\* was called on (lines 29-33): a method of one instance reads and writes its own
OwnFields(own, foreign) == own

\* this.flushJobs = this.flushJobs.bind(this): the entry the second instance
\* queues runs flushJobs on the second instance
BoundToOther(job) == [job EXCEPT !.type = "flushOther"]

\* keys of the second instance are named like those of the first
NameableOther(arg) ==
    \A k \in 1..(arg - 1) :
        \/ \E i \in DOMAIN loadLog : loadLog[i].key = k
        \/ \E i \in DOMAIN other.log : other.log[i].key = k

\* user code calls load(arg) on the second instance
LoadOther(arg, hasQM) ==
    /\ running
    /\ Len(loadLog) + Len(other.log) < MaxLoads
    /\ NameableOther(arg)
    /\ LET own == OwnFields(Fields(other), Fields(Here))
           pre == [isFlushPending |-> own.isFlushPending,
                   resolveArr |-> own.resolveArr,
                   rejectArr |-> own.rejectArr,
                   data |-> own.data,
                   cachePromises |-> own.cachePromises,
                   promises |-> promises, mq |-> mq, ret |-> 0, hit |-> FALSE]
           st == LoadStep(pre, arg, hasQM)
       IN /\ other' = [isFlushPending |-> st.isFlushPending,
                       resolveArr |-> st.resolveArr,
                       rejectArr |-> st.rejectArr,
                       data |-> st.data,
                       cachePromises |-> st.cachePromises,
                       log |-> Append(other.log,
                                      [key |-> arg, p |-> st.ret, hit |-> st.hit]),
                       calls |-> other.calls]
          /\ promises' = st.promises
          /\ mq' = IF Len(st.mq) > Len(mq)
                   THEN Append(mq, BoundToOther(st.mq[Len(st.mq)]))
                   ELSE mq
    /\ UNCHANGED <<loaderVars, batches, running, seg, spawned, loadLog, uncaught>>

\* the event loop runs flushJobs of the second instance; its loaderFn returns an
\* array, throws, or returns a promise that is settled later
RunFlushOther ==
    /\ CallStackEmpty
    /\ mq # <<>>
    /\ Head(mq).type = "flushOther"
    /\ IF Len(other.data) = 0
       THEN /\ other' = [other EXCEPT !.isFlushPending = FALSE]
            /\ mq' = Tail(mq)
            /\ UNCHANGED <<batches, uncaught>>
       ELSE \E beh \in LoaderBehaviours(other.data) :
            /\ beh.re = 0
            /\ LET b == Len(batches) + 1
                   batch == [keys |-> Slice(other.data),
                             resolvers |-> Slice(other.resolveArr),
                             rejectors |-> Slice(other.rejectArr),
                             atCall |-> Fields(Cleared(other)),
                             p0 |-> CASE beh.how = "return" -> "fulfilled"
                                      [] beh.how = "throw" -> "threw"
                                      [] OTHER -> "pending",
                             sync |-> beh.how # "promise",
                             res |-> beh.res,
                             err |-> beh.err]
               IN /\ other' = [Cleared(other) EXCEPT !.calls = Append(other.calls, b)]
                  /\ batches' = Append(batches, batch)
                  /\ mq' = IF beh.how = "return"
                           THEN Append(Tail(mq), Job("then", b, beh.res, NoErr))
                           ELSE Tail(mq)
                  /\ uncaught' = IF beh.how = "throw" THEN uncaught + 1 ELSE uncaught
    /\ UNCHANGED <<loaderVars, promises, running, seg, spawned, loadLog>>


\* ===================================================================
\* Properties
\* ===================================================================
\* x is an element of the sequence s
InSeq(x, s) == \E i \in 1..Len(s) : s[i] = x

\* the load() calls made in segment s
LoadsOfSeg(s) == {i \in DOMAIN loadLog : loadLog[i].seg = s}

\* the loaderFn calls that carry promise p
BatchesOf(p) == {b \in DOMAIN batches : InSeq(p, batches[b].resolvers)}

\* promise p still waits in the open batch
Live(p) == InSeq(p, resolveArr)

\* the elements of s from index i on that are not in acc, appended to acc in the
\* order of their first occurrence
RECURSIVE FirstSeenFrom(_, _, _)
FirstSeenFrom(s, i, acc) ==
    IF i > Len(s) THEN acc
    ELSE FirstSeenFrom(s, i + 1, IF InSeq(s[i], acc) THEN acc ELSE Append(acc, s[i]))

\* the keys of s without repetitions, in the order of their first occurrence
FirstSeen(s) == FirstSeenFrom(s, 1, <<>>)

\* the keys of the load() calls that got a promise of batch b, in call order
RECURSIVE KeysAskedOf(_, _)
KeysAskedOf(b, n) ==
    IF n = 0 THEN <<>>
    ELSE IF InSeq(loadLog[n].p, batches[b].resolvers)
         THEN Append(KeysAskedOf(b, n - 1), loadLog[n].key)
         ELSE KeysAskedOf(b, n - 1)

\* the position of key k in the key list keys (0: absent)
PositionOf(k, keys) ==
    IF InSeq(k, keys) THEN CHOOSE i \in DOMAIN keys : keys[i] = k ELSE 0

\* the .then callback of batch b has run
ThenDone(b) ==
    /\ batches[b].p0 = "fulfilled"
    /\ \A i \in DOMAIN mq : ~(mq[i].type = "then" /\ mq[i].b = b)

\* C1: the load() calls of one synchronous segment are served by exactly one
\* call of loaderFn: none while their batch is still open, one once it is flushed,
\* never two, however many calls were made and however many keys repeat.
C1_OneFetchPerSegment ==
    \A i \in DOMAIN loadLog :
        LET p == loadLog[i].p
            inv == BatchesOf(p)
        IN /\ IF Live(p) THEN inv = {} ELSE Cardinality(inv) = 1
           /\ \A j \in (i + 1)..Len(loadLog) :
                 loadLog[j].seg = loadLog[i].seg =>
                    /\ Live(loadLog[j].p) <=> Live(p)
                    /\ BatchesOf(loadLog[j].p) = inv

\* three calls of one segment, a key repeated, served by a loaderFn call
C1_Witness ==
    \E s \in 0..Len(loadLog) :
        /\ Cardinality(LoadsOfSeg(s)) >= 3
        /\ \E i, j \in LoadsOfSeg(s) : i # j /\ loadLog[i].key = loadLog[j].key
        /\ \A i \in LoadsOfSeg(s) : BatchesOf(loadLog[i].p) # {}

\* C2: the key list of every loaderFn call holds each requested key once, in the
\* order of the first load() call for it.
C2_KeysDedupedFirstSeen ==
    \A b \in DOMAIN batches :
        batches[b].keys = FirstSeen(KeysAskedOf(b, Len(loadLog)))

\* a batch built from the calls a, b, a
C2_Witness ==
    \E b \in DOMAIN batches :
        LET asked == KeysAskedOf(b, Len(loadLog))
        IN /\ Len(asked) = 3
           /\ asked[1] = asked[3]
           /\ asked[1] # asked[2]
           /\ Len(batches[b].keys) = 2

\* C3: two load() calls made while the same batch is open (no loaderFn call
\* between them) return the same promise if and only if their keys are equal.
C3_SamePromiseIffSameKey ==
    \A i \in DOMAIN loadLog : \A j \in (i + 1)..Len(loadLog) :
        loadLog[i].nb = loadLog[j].nb =>
            (loadLog[i].key = loadLog[j].key <=> loadLog[i].p = loadLog[j].p)

\* an open batch asked for a, a and b
C3_Witness ==
    \E i, j, k \in DOMAIN loadLog :
        /\ i < j
        /\ loadLog[i].nb = loadLog[j].nb
        /\ loadLog[j].nb = loadLog[k].nb
        /\ loadLog[i].key = loadLog[j].key
        /\ loadLog[i].p = loadLog[j].p
        /\ loadLog[k].key # loadLog[i].key
        /\ loadLog[k].p # loadLog[i].p

\* the batch of a load() call, counted by the loaderFn calls made before it
BatchOfLoad(e) == e.nb + 1

\* C4: once loaderFn has succeeded with as many results as keys and the .then
\* callback has run, the promise of every load(k) of that batch, duplicates
\* included, is fulfilled with the result at the position of k in the key list.
C4_FulfilledWithAlignedResult ==
    \A n \in DOMAIN loadLog :
        LET e == loadLog[n]
            b == BatchOfLoad(e)
        IN (/\ b \in DOMAIN batches
            /\ ThenDone(b)
            /\ Len(batches[b].res) = Len(batches[b].keys))
           => LET i == PositionOf(e.key, batches[b].keys)
              IN /\ i # 0
                 /\ promises[e.p].st = "fulfilled"
                 /\ promises[e.p].val = batches[b].res[i]

\* a batch asked for a, b, a whose two results have been handed out
C4_Witness ==
    \E b \in DOMAIN batches :
        /\ ThenDone(b)
        /\ Len(batches[b].keys) = 2
        /\ Len(batches[b].res) = 2
        /\ \E i, j \in DOMAIN loadLog :
              /\ i < j
              /\ BatchOfLoad(loadLog[i]) = b
              /\ BatchOfLoad(loadLog[j]) = b
              /\ loadLog[i].key = loadLog[j].key
              /\ promises[loadLog[j].p].st = "fulfilled"

\* the failure of batch b's loaderFn call has been handled as far as it ever is:
\* a throw ends flushJobs at once, a rejection goes through .then and .catch
FailureHandled(b) ==
    \/ batches[b].p0 = "threw"
    \/ /\ batches[b].p0 = "rejected"
       /\ \A i \in DOMAIN mq : ~(mq[i].type \in {"pass", "catch"} /\ mq[i].b = b)

\* C5: when loaderFn fails for a batch, by throwing or by a rejected promise,
\* every promise of the batch is rejected, all with that failure value.
C5_AllRejectedWithSameFailure ==
    \A b \in DOMAIN batches :
        FailureHandled(b) =>
            \A i \in DOMAIN batches[b].rejectors :
                /\ promises[batches[b].rejectors[i]].st = "rejected"
                /\ promises[batches[b].rejectors[i]].err = batches[b].err

\* C6: at every call of loaderFn the five fields of the loader are already
\* empty: no pending key, no callback, no cached promise, no flush pending.
C6_StateEmptyAtFetch ==
    \A b \in DOMAIN batches :
        /\ batches[b].atCall.data = <<>>
        /\ batches[b].atCall.resolveArr = <<>>
        /\ batches[b].atCall.rejectArr = <<>>
        /\ DOMAIN batches[b].atCall.cachePromises = {}
        /\ batches[b].atCall.isFlushPending = FALSE

\* loaderFn was called for a batch of two keys
C6_Witness ==
    \E b \in DOMAIN batches : Len(batches[b].keys) = 2

\* C7: a load() made after the flush of a batch has run, whether or not that
\* batch's fetch has finished, starts a new batch: its promise is none of that
\* batch's, it waits in the open batch with its key, and once flushed it is
\* carried, with its key, by a later loaderFn call.
C7_LoadDuringFetchStartsNewBatch ==
    \A n \in DOMAIN loadLog :
        LET e == loadLog[n]
        IN \A b \in 1..e.nb :
              /\ ~InSeq(e.p, batches[b].resolvers)
              /\ ~InSeq(e.p, batches[b].rejectors)
              /\ \/ Live(e.p) /\ InSeq(e.key, data)
                 \/ \E b2 \in DOMAIN batches :
                       /\ b2 > b
                       /\ InSeq(e.p, batches[b2].resolvers)
                       /\ InSeq(e.key, batches[b2].keys)

\* a key of a batch in flight was asked again and went out in a second call
C7_Witness ==
    \E n \in DOMAIN loadLog :
        \E b \in 1..loadLog[n].nb :
            /\ batches[b].p0 = "pending"
            /\ InSeq(loadLog[n].key, batches[b].keys)
            /\ \E b2 \in DOMAIN batches :
                  b2 > b /\ InSeq(loadLog[n].p, batches[b2].resolvers)

\* C8: two load(k) calls with a loaderFn call between them return different
\* promises, and each promise is carried by one loaderFn call of its own, whose
\* key list holds k.
C8_NewPromiseAfterFlush ==
    \A i \in DOMAIN loadLog : \A j \in (i + 1)..Len(loadLog) :
        (loadLog[i].key = loadLog[j].key /\ loadLog[i].nb < loadLog[j].nb) =>
            LET first == BatchesOf(loadLog[i].p)
                second == BatchesOf(loadLog[j].p)
            IN /\ loadLog[i].p # loadLog[j].p
               /\ first \cap second = {}
               /\ Cardinality(first) = 1
               /\ IF Live(loadLog[j].p) THEN second = {} ELSE Cardinality(second) = 1
               /\ \A b \in first \cup second : InSeq(loadLog[i].key, batches[b].keys)

\* k asked, fetched and fulfilled, then asked and fetched again
C8_Witness ==
    \E i, j \in DOMAIN loadLog :
        /\ loadLog[i].key = loadLog[j].key
        /\ loadLog[i].nb < loadLog[j].nb
        /\ promises[loadLog[i].p].st = "fulfilled"
        /\ BatchesOf(loadLog[j].p) # {}
        /\ batches[BatchOfLoad(loadLog[i])].keys = <<loadLog[i].key>>
        /\ batches[BatchOfLoad(loadLog[j])].keys = <<loadLog[j].key>>

\* C9: whatever the order in which the fetches of batches in flight finish, a
\* settled promise was settled by the batch it was created in: fulfilled with
\* that batch's result at the position of its key, or rejected with that batch's
\* failure.
C9_SettledByOwnBatchOnly ==
    \A n \in DOMAIN loadLog :
        LET e == loadLog[n]
            q == promises[e.p]
            b == BatchOfLoad(e)
        IN q.st # "pending" =>
              /\ q.by = b
              /\ q.st = "fulfilled" =>
                    /\ batches[b].p0 = "fulfilled"
                    /\ PositionOf(e.key, batches[b].keys) \in DOMAIN batches[b].res
                    /\ q.val = batches[b].res[PositionOf(e.key, batches[b].keys)]
              /\ q.st = "rejected" =>
                    /\ batches[b].p0 = "rejected"
                    /\ q.err = batches[b].err

\* two batches were in flight together and the later one finished first
C9_Witness ==
    \E b1, b2 \in DOMAIN batches :
        /\ b1 < b2
        /\ batches[b1].p0 = "pending"
        /\ ~batches[b2].sync
        /\ ThenDone(b2)
        /\ \E n \in DOMAIN loadLog :
              /\ BatchOfLoad(loadLog[n]) = b2
              /\ promises[loadLog[n].p].st = "fulfilled"

\* loaderFn kept its contract for the batch of promise p as far as the length of
\* its result goes: no result yet, or at least one value per key
NotShort(p) ==
    \A b \in BatchesOf(p) :
        batches[b].p0 = "fulfilled" => Len(batches[b].res) >= Len(batches[b].keys)

\* C10: when the event loop runs the scheduled flush and loaderFn completes, with
\* a result for every key or with a failure, every promise load() returned is
\* settled in the end.
C10_EveryPromiseSettles ==
    \A p \in 1..MaxLoads :
        (p \in DOMAIN promises) ~>
            (p \in DOMAIN promises /\ (promises[p].st # "pending" \/ ~NotShort(p)))

\* every callback flushJobs attached for batch b has run: the loader's promise is
\* settled and no .then, pass-through or .catch job of b waits in the queue
Handled(b) ==
    /\ batches[b].p0 \in {"fulfilled", "rejected"}
    /\ \A i \in DOMAIN mq : ~(mq[i].type \in {"then", "pass", "catch"} /\ mq[i].b = b)

\* the state of the promise at position i of batch b
StateAt(b, i) == promises[batches[b].resolvers[i]].st

C12_SettledOnceNeverReused ==
    [][/\ \A p \in DOMAIN promises :
             promises[p].st # "pending" =>
                /\ promises'[p].st = promises[p].st
                /\ promises'[p].val = promises[p].val
                /\ promises'[p].err = promises[p].err
       /\ \A n \in DOMAIN loadLog' :
             \A b \in 1..loadLog'[n].nb :
                ~InSeq(loadLog'[n].p, batches'[b].resolvers)]_vars

\* the .catch of a batch that got one result too many has run over a fulfilled
\* promise, and the key of that promise was asked again afterwards
C12_Witness ==
    \E b \in DOMAIN batches :
        /\ Handled(b)
        /\ Len(batches[b].res) > Len(batches[b].keys)
        /\ StateAt(b, 1) = "fulfilled"
        /\ promises[batches[b].resolvers[1]].val = batches[b].res[1]
        /\ \E n \in DOMAIN loadLog :
              /\ loadLog[n].nb >= b
              /\ loadLog[n].key = batches[b].keys[1]
              /\ loadLog[n].p # batches[b].resolvers[1]

\* C13: every load() call returns a promise at once, and no failure of loaderFn
\* leaves flushJobs as an exception: it shows only in the promises load() gave.
C13_NoFailureEscapesFlush ==
    /\ \A n \in DOMAIN loadLog : loadLog[n].p \in DOMAIN promises
    /\ uncaught = 0

\* the loaderFn call of batch b failed, by a throw or by a rejected promise
Failed(b) == batches[b].p0 \in {"threw", "rejected"}

\* the number of flushJobs callbacks waiting in the microtask queue
FlushesQueued == Cardinality({i \in DOMAIN mq : mq[i].type = "flush"})

\* the last loaderFn call failed, its failure has been handled, and no load()
\* was made since that call
IdleAfterFailure ==
    /\ batches # <<>>
    /\ FailureHandled(Len(batches))
    /\ \A n \in DOMAIN loadLog : loadLog[n].nb < Len(batches)

\* C14: after a batch whose loaderFn call failed the loader is idle again. The next
\* load(), for a key of the failed batch or another, makes a new promise, opens a
\* batch that holds that key alone and schedules one flush; every load() made
\* after a failed call goes out in the next loaderFn call, and is fulfilled with
\* its own result when that call succeeds with one result per key.
C14_RecoversAfterFailure ==
    /\ [][(IdleAfterFailure /\ loadLog' # loadLog) =>
             LET e == loadLog'[Len(loadLog')]
             IN /\ data = <<>> /\ DOMAIN cachePromises = {} /\ ~isFlushPending
                /\ FlushesQueued = 0
                /\ ~e.hit
                /\ e.p \notin DOMAIN promises
                /\ promises'[e.p].st = "pending"
                /\ data' = <<e.key>>
                /\ resolveArr' = <<e.p>>
                /\ isFlushPending'
                /\ FlushesQueued' = 1]_vars
    /\ [](\A n \in DOMAIN loadLog :
             LET e == loadLog[n]
                 b == BatchOfLoad(e)
             IN (e.nb >= 1 /\ Failed(e.nb)) =>
                   /\ ~InSeq(e.p, batches[e.nb].resolvers)
                   /\ IF Live(e.p)
                      THEN isFlushPending /\ FlushesQueued = 1
                      ELSE /\ b \in DOMAIN batches
                           /\ InSeq(e.p, batches[b].resolvers)
                           /\ InSeq(e.key, batches[b].keys)
                           /\ (ThenDone(b) /\ Len(batches[b].res) = Len(batches[b].keys))
                              => /\ promises[e.p].st = "fulfilled"
                                 /\ promises[e.p].val =
                                       batches[b].res[PositionOf(e.key, batches[b].keys)])

\* the loaderFn call for load(a) threw; a later segment asked for a again and
\* for another key, and both were fulfilled by the next loaderFn call
C14_Witness ==
    \E n \in DOMAIN loadLog : \E m \in (n + 1)..Len(loadLog) :
        LET b == loadLog[n].nb
        IN /\ b >= 1
           /\ batches[b].p0 = "threw"
           /\ loadLog[m].nb = b
           /\ loadLog[m].seg = loadLog[n].seg
           /\ InSeq(loadLog[n].key, batches[b].keys)
           /\ loadLog[m].key # loadLog[n].key
           /\ b + 1 \in DOMAIN batches
           /\ ThenDone(b + 1)
           /\ promises[loadLog[n].p].st = "fulfilled"
           /\ promises[loadLog[m].p].st = "fulfilled"

\* C15: at most one flushJobs callback waits in the microtask queue, and one
\* waits exactly when isFlushPending is set: a load() that finds the flag set
\* queues nothing.
C15_AtMostOneFlushScheduled ==
    /\ FlushesQueued <= 1
    /\ isFlushPending <=> FlushesQueued = 1

\* two keys were asked in one segment and a single flush is queued for both
C15_Witness ==
    /\ running
    /\ Len(data) = 2
    /\ Len(loadLog) >= seg + 2
    /\ FlushesQueued = 1

\* C16: loaderFn is not called while the segment that called load() is running:
\* the calls of the running segment are all still waiting in the open batch,
\* and the one loaderFn call that carries a load() is made after every loaderFn
\* call that had been made when that load() returned.
C16_NoFetchDuringSegment ==
    /\ running =>
          \A n \in (seg + 1)..Len(loadLog) :
             /\ loadLog[n].nb = Len(batches)
             /\ Live(loadLog[n].p)
             /\ BatchesOf(loadLog[n].p) = {}
    /\ \A n \in DOMAIN loadLog :
          BatchesOf(loadLog[n].p) \subseteq {BatchOfLoad(loadLog[n])}

\* a second segment has made two load() calls, after the flush of an earlier one
C16_Witness ==
    /\ running
    /\ Len(loadLog) >= seg + 2
    /\ seg >= 1
    /\ Len(batches) >= 1
    /\ FlushesQueued = 1

Outcome(b) ==
    IF Failed(b) THEN <<"failed", batches[b].err>> ELSE <<"succeeded", batches[b].res>>

\* nothing is left to run for batch b
Complete(b) == batches[b].p0 = "threw" \/ Handled(b)

\* state, value and reason of the promises of batch b, by position
FinalStates(b) ==
    [i \in DOMAIN batches[b].resolvers |->
        LET q == promises[batches[b].resolvers[i]] IN <<q.st, q.val, q.err>>]

\* C18: a loaderFn that completes inside the call (returns an array, throws) and
\* one that completes later (returns a promise) are treated alike: two batches
\* with the same key list and the same outcome, one of each kind, leave their
\* promises in the same states once both are complete.
C18_SyncAsyncUniform ==
    \A b1 \in DOMAIN batches : \A b2 \in DOMAIN batches :
        (/\ batches[b1].sync
         /\ ~batches[b2].sync
         /\ batches[b1].keys = batches[b2].keys
         /\ Complete(b1)
         /\ Complete(b2)
         /\ Outcome(b1) = Outcome(b2))
        => FinalStates(b1) = FinalStates(b2)

\* C19: loaderFn is never called with an empty key list, a loader whose load()
\* was never called has no flush queued and calls loaderFn never, and a flush is
\* queued only while a key is pending.
C19_NoFetchWithoutKeys ==
    /\ \A b \in DOMAIN batches :
          /\ Len(batches[b].keys) >= 1
          /\ Len(batches[b].resolvers) = Len(batches[b].keys)
    /\ loadLog = <<>> => (batches = <<>> /\ FlushesQueued = 0 /\ ~isFlushPending)
    /\ FlushesQueued >= 1 => Len(data) >= 1

\* a flush ran for the smallest batch there is: one load(), one key
C19_Witness ==
    /\ Len(loadLog) = 1
    /\ ~running
    /\ FlushesQueued = 0
    /\ Len(batches) = 1
    /\ batches[1].keys = <<loadLog[1].key>>

\* C20: when loaderFn succeeds with fewer results than keys, the promises whose
\* position the result covers are fulfilled, each with its own result, when .then
\* runs, and the promises past the end of the result stay pending in every later
\* state: nothing fulfils them and nothing rejects them.
C20_ShortResultLeavesRestPending ==
    \A b \in DOMAIN batches :
        (batches[b].p0 = "fulfilled" /\ Len(batches[b].res) < Len(batches[b].keys)) =>
            \A i \in DOMAIN batches[b].resolvers :
                IF i <= Len(batches[b].res)
                THEN ThenDone(b) =>
                        /\ StateAt(b, i) = "fulfilled"
                        /\ promises[batches[b].resolvers[i]].val = batches[b].res[i]
                ELSE StateAt(b, i) = "pending"

\* one result came back for two keys; everything has run and the loader is at
\* rest with the first promise fulfilled and the second still pending
C20_Witness ==
    /\ ~running
    /\ mq = <<>>
    /\ \E b \in DOMAIN batches :
          /\ Handled(b)
          /\ Len(batches[b].keys) = 2
          /\ Len(batches[b].res) = 1
          /\ StateAt(b, 1) = "fulfilled"
          /\ StateAt(b, 2) = "pending"

\* C21: when loaderFn succeeds with more results than keys, every promise of the
\* batch is fulfilled with the result at its own position once .then has run, and
\* stays so: the entries past the last key fulfil nothing, the rejects that
\* .catch calls afterwards change nothing, and no error leaves flushJobs for it
\* (the errors that did are the throws of loaderFn itself).
C21_LongResultExtraDropped ==
    \A b \in DOMAIN batches :
        (/\ batches[b].p0 = "fulfilled"
         /\ Len(batches[b].res) > Len(batches[b].keys)
         /\ ThenDone(b))
        => /\ \A i \in DOMAIN batches[b].resolvers :
                 /\ StateAt(b, i) = "fulfilled"
                 /\ promises[batches[b].resolvers[i]].val = batches[b].res[i]
           /\ uncaught = Cardinality({c \in DOMAIN batches : batches[c].p0 = "threw"})

\* three results came back for the keys a, b; everything has run, the loader is
\* at rest, and a, b hold the first two results
C21_Witness ==
    /\ ~running
    /\ mq = <<>>
    /\ uncaught = 0
    /\ \E b \in DOMAIN batches :
          /\ Handled(b)
          /\ Len(batches[b].keys) = 2
          /\ Len(batches[b].res) = 3
          /\ promises[batches[b].resolvers[1]].val = batches[b].res[1]
          /\ promises[batches[b].resolvers[2]].val = batches[b].res[2]
          /\ batches[b].res[1] # batches[b].res[2]

\* C22: a load(k) answered by the cache returns the promise registered for k and
\* changes nothing: data, resolveArr, rejectArr, cachePromises and isFlushPending
\* are as before, no promise is made and nothing is queued.
C22_CacheHitChangesNothing ==
    [][(loadLog' # loadLog /\ loadLog'[Len(loadLog')].hit) =>
          LET e == loadLog'[Len(loadLog')]
          IN /\ InSeq(e.key, data)
             /\ e.p = cachePromises[e.key]
             /\ data' = data
             /\ resolveArr' = resolveArr
             /\ rejectArr' = rejectArr
             /\ cachePromises' = cachePromises
             /\ isFlushPending' = isFlushPending
             /\ isFlushPending
             /\ promises' = promises
             /\ mq' = mq]_vars

\* a, b, then a again in one segment: the third call was answered by the cache
C22_Witness ==
    /\ running
    /\ Len(loadLog) = seg + 3
    /\ loadLog[seg + 3].hit
    /\ loadLog[seg + 3].p = loadLog[seg + 1].p
    /\ Len(data) = 2
    /\ FlushesQueued = 1

\* C23: what flushJobs hands to loaderFn is a copy of data, resolveArr and
\* rejectArr as they were when the flush began, and it stays as it is: no later
\* load() and no later flush changes the key list or the callbacks of a call
\* already made, and a promise is settled only by the callbacks of the batch
\* whose .then or .catch is running.
C23_BatchIsSnapshot ==
    [][/\ \A b \in DOMAIN batches :
             /\ batches'[b].keys = batches[b].keys
             /\ batches'[b].resolvers = batches[b].resolvers
             /\ batches'[b].rejectors = batches[b].rejectors
       /\ Len(batches') > Len(batches) =>
             /\ Len(batches') = Len(batches) + 1
             /\ batches'[Len(batches')].keys = data
             /\ batches'[Len(batches')].resolvers = resolveArr
             /\ batches'[Len(batches')].rejectors = rejectArr
       /\ \A p \in DOMAIN promises :
             promises'[p] # promises[p] =>
                /\ mq # <<>>
                /\ Head(mq).type \in {"then", "catch"}
                /\ InSeq(p, batches[Head(mq).b].resolvers)]_vars

\* the fetch for a was in flight while a and b were asked and flushed as a second
\* batch; the first fetch then fulfilled the first promise of a and nothing else
C23_Witness ==
    /\ Len(batches) = 2
    /\ ~batches[1].sync
    /\ Handled(1)
    /\ Len(batches[1].keys) = 1
    /\ StateAt(1, 1) = "fulfilled"
    /\ Len(batches[2].keys) = 2
    /\ InSeq(batches[1].keys[1], batches[2].keys)
    /\ batches[2].p0 = "pending"
    /\ StateAt(2, 1) = "pending"
    /\ StateAt(2, 2) = "pending"

\* the place of the settlement of the promise at position i of batch b
OrdAt(b, i) == promises[batches[b].resolvers[i]].ord

\* C24: the promises of a batch are fulfilled in the order of the result, which
\* is the order of the key list: whenever the promise at position j is fulfilled,
\* the promise at every position i < j is fulfilled too and was fulfilled
\* earlier.
C24_FulfilledInResultOrder ==
    \A b \in DOMAIN batches :
        \A j \in DOMAIN batches[b].resolvers :
            StateAt(b, j) = "fulfilled" =>
                /\ OrdAt(b, j) = j
                /\ \A i \in 1..(j - 1) :
                      /\ StateAt(b, i) = "fulfilled"
                      /\ OrdAt(b, i) < OrdAt(b, j)

\* a batch built from the calls a, b: a was fulfilled first, b second
C24_Witness ==
    \E b \in DOMAIN batches :
        /\ ThenDone(b)
        /\ Len(batches[b].keys) = 2
        /\ batches[b].keys = FirstSeen(KeysAskedOf(b, Len(loadLog)))
        /\ StateAt(b, 1) = "fulfilled"
        /\ StateAt(b, 2) = "fulfilled"
        /\ OrdAt(b, 1) = 1
        /\ OrdAt(b, 2) = 2

\* C25: between operations the four collections of the loader agree: data,
\* resolveArr and rejectArr have one entry per key of cachePromises, the keys of
\* cachePromises are the pending keys, each once, and the callbacks at an index
\* are those of the promise cached for the key at that index. A repeated load(k)
\* adds no callback.
C25_CollectionsAligned ==
    /\ Len(data) = Len(resolveArr)
    /\ Len(data) = Len(rejectArr)
    /\ Len(data) = Cardinality(DOMAIN cachePromises)
    /\ DOMAIN cachePromises = {data[i] : i \in DOMAIN data}
    /\ \A i \in DOMAIN data :
          /\ resolveArr[i] = cachePromises[data[i]]
          /\ rejectArr[i] = cachePromises[data[i]]
          /\ promises[resolveArr[i]].st = "pending"

\* a, b and a again were asked: three calls, two entries in each collection
C25_Witness ==
    /\ running
    /\ Len(loadLog) = seg + 3
    /\ loadLog[seg + 1].key = loadLog[seg + 3].key
    /\ loadLog[seg + 1].key # loadLog[seg + 2].key
    /\ Len(data) = 2
    /\ Len(resolveArr) = 2
    /\ Len(rejectArr) = 2
    /\ Cardinality(DOMAIN cachePromises) = 2

\* the record st without the trace of which primitive queued each flushJobs entry
Untagged(st) ==
    [st EXCEPT !.mq = [i \in DOMAIN st.mq |->
                          IF st.mq[i].type = "flush"
                          THEN [st.mq[i] EXCEPT !.err = "queueMicrotask"]
                          ELSE st.mq[i]]]

C28_PendingKeysHaveFlush ==
    /\ data # <<>> <=> isFlushPending
    /\ data # <<>> <=> FlushesQueued >= 1

\* two keys are pending while their flush waits behind a callback of the user
C28_Witness ==
    /\ ~running
    /\ Len(data) = 2
    /\ isFlushPending
    /\ Len(mq) = 2
    /\ mq[1].type = "user"
    /\ mq[2].type = "flush"

\* C29: the branch of flushJobs for an empty data array is never taken: no step
\* consumes a queued flushJobs entry without calling loaderFn, and every flush
\* that runs finds at least one pending key.
C29_EmptyFlushUnreachable ==
    [][/\ ~(/\ mq # <<>>
            /\ Head(mq).type = "flush"
            /\ mq' = Tail(mq)
            /\ batches' = batches)
       /\ Len(batches') > Len(batches) => (data # <<>> /\ isFlushPending)
       /\ (mq # <<>> /\ Head(mq).type = "flush" /\ CallStackEmpty) => data # <<>>]_vars

\* every load() allowed has been made, two flushes have run, each with a key to
\* send, and the queue is empty again with nothing pending
C29_Witness ==
    /\ ~running
    /\ mq = <<>>
    /\ Len(loadLog) = MaxLoads
    /\ Len(batches) = 2
    /\ data = <<>>
    /\ ~isFlushPending

\* the number of times x occurs in the sequence s
Occurrences(x, s) == Cardinality({i \in DOMAIN s : s[i] = x})

\* the index of the promise p in the sequence s of callbacks (0: absent)
IndexOf(p, s) == IF InSeq(p, s) THEN CHOOSE i \in DOMAIN s : s[i] = p ELSE 0

\* the number of flushes scheduled so far: one per batch opened by a load()
FlushesScheduled == Cardinality({loadLog[n].nb : n \in DOMAIN loadLog})

\* C30: keys are conserved. The key of every load() that made a promise is either
\* still pending, once, or was passed to loaderFn in exactly one call, once, at
\* the index of its promise; and every flush scheduled has either run and made
\* one loaderFn call or is still queued, so loaderFn calls and flushes run are
\* equal in number.
C30_KeysConserved ==
    /\ \A n \in DOMAIN loadLog :
          LET e == loadLog[n]
              b == BatchOfLoad(e)
          IN ~e.hit =>
                IF Live(e.p)
                THEN /\ BatchesOf(e.p) = {}
                     /\ Occurrences(e.p, resolveArr) = 1
                     /\ Occurrences(e.key, data) = 1
                     /\ data[IndexOf(e.p, resolveArr)] = e.key
                ELSE /\ BatchesOf(e.p) = {b}
                     /\ Occurrences(e.p, batches[b].resolvers) = 1
                     /\ Occurrences(e.key, batches[b].keys) = 1
                     /\ batches[b].keys[IndexOf(e.p, batches[b].resolvers)] = e.key
    /\ FlushesScheduled = Len(batches) + FlushesQueued

\* three load() calls that each made a promise went out in two loaderFn calls
C30_Witness ==
    /\ ~running
    /\ mq = <<>>
    /\ Len(loadLog) = 3
    /\ \A n \in DOMAIN loadLog : ~loadLog[n].hit
    /\ Len(batches) = 2
    /\ Len(batches[1].keys) + Len(batches[2].keys) = 3

\* the promises load() returned on the first instance, and on the second
FirstPromises == {loadLog[n].p : n \in DOMAIN loadLog}
OtherPromises == {other.log[n].p : n \in DOMAIN other.log}

\* the promise at every index of the callbacks cbs was returned by a load(k) of
\* the calls in log, with k the key at that index of keys
OwnBatch(keys, cbs, log) ==
    /\ Len(keys) = Len(cbs)
    /\ \A i \in DOMAIN cbs :
          \E n \in DOMAIN log : log[n].p = cbs[i] /\ log[n].key = keys[i]

JustLoaded == loadLog'[Len(loadLog')]

ReentrantStep == ~running /\ Len(loadLog') = Len(loadLog) + 1

\* C32: a load() made by loaderFn while flushJobs runs is safe. The batch being
\* fetched is the snapshot taken before the call (its keys and callbacks are the
\* pending ones, the new key and promise are not among them, and no promise
\* changes); the load() gets a new promise, even for a key of that batch, and
\* opens a batch that holds its key alone, with one flush newly queued behind
\* the jobs already waiting. Every later loaderFn call takes exactly what is
\* pending when it runs and leaves the batches already fetched as they are, so
\* the re-entrant key goes out in a later call.
C32_ReentrantLoadIsSafe ==
    /\ [][ReentrantStep =>
             LET b == Len(batches')
             IN /\ b = Len(batches) + 1
                /\ batches'[b].keys = data
                /\ batches'[b].resolvers = resolveArr
                /\ batches'[b].rejectors = rejectArr
                /\ JustLoaded.nb = b
                /\ ~JustLoaded.hit
                /\ JustLoaded.p = Len(promises) + 1
                /\ ~InSeq(JustLoaded.p, batches'[b].resolvers)
                /\ ~InSeq(JustLoaded.p, batches'[b].rejectors)
                /\ \A q \in DOMAIN promises : promises'[q] = promises[q]
                /\ promises'[JustLoaded.p].st = "pending"
                /\ data' = <<JustLoaded.key>>
                /\ resolveArr' = <<JustLoaded.p>>
                /\ rejectArr' = <<JustLoaded.p>>
                /\ DOMAIN cachePromises' = {JustLoaded.key}
                /\ cachePromises'[JustLoaded.key] = JustLoaded.p
                /\ isFlushPending'
                /\ FlushesQueued' = 1
                /\ SubSeq(mq', 1, Len(mq) - 1) = Tail(mq)
                /\ mq'[Len(mq)].type = "flush"]_vars
    /\ [][Len(batches') > Len(batches) =>
             /\ batches'[Len(batches')].keys = data
             /\ batches'[Len(batches')].resolvers = resolveArr
             /\ batches'[Len(batches')].rejectors = rejectArr
             /\ \A c \in DOMAIN batches :
                   /\ batches'[c].keys = batches[c].keys
                   /\ batches'[c].resolvers = batches[c].resolvers
                   /\ batches'[c].rejectors = batches[c].rejectors]_vars

\* loaderFn, called for a, asked for a itself and returned an array; the flush that
\* load() queued ran ahead of the first call's .then callback, so both callbacks
\* wait: two loaderFn calls for a, each with a promise of its own
C32_Witness ==
    /\ ~running
    /\ Len(loadLog) = 2
    /\ Len(batches) = 2
    /\ Len(mq) = 2
    /\ mq[1].type = "then" /\ mq[1].b = 1
    /\ mq[2].type = "then" /\ mq[2].b = 2
    /\ batches[1].sync
    /\ batches[2].sync
    /\ loadLog[2].key = loadLog[1].key
    /\ loadLog[2].nb = 1
    /\ loadLog[2].p # loadLog[1].p
    /\ batches[1].keys = <<loadLog[1].key>>
    /\ batches[1].resolvers = <<loadLog[1].p>>
    /\ batches[2].keys = <<loadLog[2].key>>
    /\ batches[2].resolvers = <<loadLog[2].p>>

\* the load() calls that got a promise of batch b, and those among them that
\* made the promise
CallsOf(b) == {n \in DOMAIN loadLog : InSeq(loadLog[n].p, batches[b].resolvers)}
MakersOf(b) == {n \in CallsOf(b) : ~loadLog[n].hit}

\* the load() calls whose promise waits in the open batch
CallsPending == {n \in DOMAIN loadLog : Live(loadLog[n].p)}

\* C33 as stated: the callback lists of a batch hold one pair per load() call, so
\* a batch built from load(a), load(a), load(b) carries three pairs.
C33_OnePairPerRequest ==
    \A b \in DOMAIN batches :
        /\ Len(batches[b].resolvers) = Cardinality(CallsOf(b))
        /\ Len(batches[b].rejectors) = Cardinality(CallsOf(b))

\* C33, amended: the callback lists of a batch hold one pair per distinct key,
\* the pair of the promise made by the first load() for that key, and none for a
\* repeated load(): as many pairs as keys passed to loaderFn, as distinct keys
\* asked and as load() calls that made a promise, each promise once, the pair at
\* an index belonging to the promise returned for the key at that index. The same
\* holds of the pending lists of the open batch.
C33_OnePairPerDistinctKey ==
    /\ \A b \in DOMAIN batches :
          LET cbs == batches[b].resolvers
          IN /\ Len(cbs) = Len(batches[b].rejectors)
             /\ Len(cbs) = Len(batches[b].keys)
             /\ Len(cbs) = Cardinality({loadLog[n].key : n \in CallsOf(b)})
             /\ Len(cbs) = Cardinality(MakersOf(b))
             /\ Len(cbs) <= Cardinality(CallsOf(b))
             /\ \A i \in DOMAIN cbs :
                   /\ batches[b].rejectors[i] = cbs[i]
                   /\ Occurrences(cbs[i], cbs) = 1
                   /\ \A n \in CallsOf(b) :
                         loadLog[n].p = cbs[i] <=> loadLog[n].key = batches[b].keys[i]
    /\ Len(resolveArr) = Cardinality({loadLog[n].key : n \in CallsPending})
    /\ Len(rejectArr) = Len(resolveArr)
    /\ Len(resolveArr) = Cardinality({n \in CallsPending : ~loadLog[n].hit})

\* a batch built from load(a), load(a), load(b) went to loaderFn with two pairs
C33_Witness ==
    \E b \in DOMAIN batches :
        LET asked == KeysAskedOf(b, Len(loadLog))
        IN /\ Len(asked) = 3
           /\ asked[1] = asked[2]
           /\ asked[3] # asked[1]
           /\ Cardinality(CallsOf(b)) = 3
           /\ Len(batches[b].resolvers) = 2
           /\ Len(batches[b].rejectors) = 2

Next ==
    \/ StartTask
    \/ \E arg \in Keys, hasQM \in BOOLEAN : Load(arg, hasQM)
    \/ UserQueueMicrotask
    \/ EndSegment
    \/ RunUserJob
    \/ RunFlush
    \/ \E b \in DOMAIN batches : FetchSettle(b)
    \/ RunThen
    \/ RunPass
    \/ RunCatch

Spec == Init /\ [][Next]_vars

\* The event loop runs every queued microtask and every segment of user code
\* ends; every promise a loader function returned is settled in the end.
Fairness ==
    /\ WF_vars(EndSegment)
    /\ WF_vars(RunUserJob)
    /\ WF_vars(RunFlush)
    /\ WF_vars(RunThen)
    /\ WF_vars(RunPass)
    /\ WF_vars(RunCatch)
    /\ \A b \in 1..MaxLoads : WF_vars(FetchSettle(b))

FairSpec == Spec /\ Fairness

\* both loader functions keep their contract: each call gives one result per key
\* or fails with a rejected promise
KeepsContract ==
    \A b \in DOMAIN batches :
        /\ batches[b].p0 # "threw"
        /\ batches[b].p0 = "fulfilled" => Len(batches[b].res) = Len(batches[b].keys)

\* user code that works with two Dataloader instances on one event loop: tasks
\* that call load() on either instance, in an environment with queueMicrotask,
\* with loader functions that keep their contract and do not call load(), and
\* whose promises are settled by I/O, between tasks
TwoNext ==
    \/ StartTask
    \/ \E arg \in Keys : Load(arg, TRUE)
    \/ \E arg \in Keys : LoadOther(arg, TRUE)
    \/ EndSegment
    \/ RunFlush /\ KeepsContract' /\ loadLog' = loadLog
    \/ RunFlushOther /\ KeepsContract'
    \/ \E b \in DOMAIN batches :
          FetchSettle(b) /\ KeepsContract' /\ ~running /\ QueueDrained
    \/ RunThen /\ spawned' = spawned
    \/ RunPass
    \/ RunCatch /\ spawned' = spawned

TwoSpec == Init /\ [][TwoNext]_vars
====
